---------------------------- MODULE Spec2Model ----------------------------
(***************************************************************************)
(* A model of bit7z's BitArchiveCreator (src/src/bitarchivecreator.cpp):   *)
(* the compression settings and their setters, the property list handed to *)
(* the 7-zip engine, and the steps of a commit (initOutArchive,            *)
(* initOutFileStream, compressOut, cleanupOldArc) acting on the output     *)
(* archive path and its ".tmp" sibling.                                    *)
(***************************************************************************)
EXTENDS Integers, Sequences, FiniteSets, TLC

VARIABLES
    mFormat,            \* the archive format, fixed at construction
    features,           \* the feature set mFormat.hasFeature answers from
    defaultMethod,      \* mFormat.defaultMethod()
    mCompressionLevel,
    mCompressionMethod,
    mDictionarySize,
    mPassword,
    mCryptHeaders,
    mSolidMode,
    mUpdateMode,
    mVolumeSize,
    call,               \* the last public call: its name, arguments, and what it threw
    pc,                 \* position of the commit in progress ("idle" when none)
    commitNo,           \* number of commits started so far
    dest,               \* the file at out_archive
    tmp,                \* the file at out_archive + ".tmp"
    vol,                \* the volume files COutMultiVolStream writes
    dest0,              \* the file at out_archive when the current commit began
    tmp0,               \* the file at out_archive + ".tmp" when the current commit began
    outFile,            \* the path out_file_stream writes to: "none", "dest", "tmp", "vol"
    oldArc,             \* old_arc holds an open BitInputArchive
    hresult,            \* the HRESULT UpdateItems returned in the current commit
    cbMessage,          \* update_callback->getErrorMessage() in the current commit
    log                 \* the external calls the current commit has made, in order

settings == << mCompressionLevel, mCompressionMethod, mDictionarySize, mPassword,
               mCryptHeaders, mSolidMode, mUpdateMode, mVolumeSize >>

formatVars == << mFormat, features, defaultMethod >>

commitVars == << pc, commitNo, dest, tmp, vol, dest0, tmp0, outFile, oldArc,
                 hresult, cbMessage, log >>

vars == << mFormat, features, defaultMethod, mCompressionLevel, mCompressionMethod,
           mDictionarySize, mPassword, mCryptHeaders, mSolidMode, mUpdateMode,
           mVolumeSize, call, pc, commitNo, dest, tmp, vol, dest0, tmp0, outFile,
           oldArc, hresult, cbMessage, log >>

---------------------------------------------------------------------------
(* Value domains *)

\* BitFormat's output formats named by isValidCompressionMethod.
Formats == { "SevenZip", "Zip", "Tar", "Wim", "Xz", "BZip2", "GZip" }

\* BitCompressionMethod's enumerators; "Other" stands for any value that
\* reaches the default: branch of the switches.
Methods == { "Copy", "Ppmd", "Lzma", "Lzma2", "BZip2", "Deflate", "Deflate64", "Other" }

\* The FormatFeatures flags the creator asks for.
AllFeatures == { "MULTIPLE_FILES", "SOLID_ARCHIVE", "COMPRESSION_LEVEL",
                 "HEADER_ENCRYPTION", "MULTIPLE_METHODS" }

Levels == { "NORMAL", "ULTRA" }

Passwords == { "", "pw" }

\* uint64_t volume sizes tried: none, and the 1 MiB of the volume scenario.
VolumeSizes == { 0, 1048576 }

\* uint32_t dictionary sizes tried: 0, each bound of isValidDictionarySize,
\* one byte past each upper bound, and 2^31 - 1 (the largest integer TLC
\* holds; every bound of the code lies below it).
DictionarySizes == { 0, 32768, 65536, 921600, 921601, 1073741824, 1073741825,
                     1610612736, 1610612737, 2147483647 }

---------------------------------------------------------------------------
(* The validators *)

isValidCompressionMethod(format, method) ==
    CASE method = "Copy" -> format \in { "SevenZip", "Zip", "Tar", "Wim" }
      [] method \in { "Ppmd", "Lzma" } -> format \in { "SevenZip", "Zip" }
      [] method = "Lzma2" -> format \in { "SevenZip", "Xz" }
      [] method = "BZip2" -> format \in { "SevenZip", "BZip2", "Zip" }
      [] method = "Deflate" -> format \in { "GZip", "Zip" }
      [] method = "Deflate64" -> format = "Zip"
      [] OTHER -> TRUE

\* Mutant: the upper bounds are exclusive.
isValidDictionarySizeExclusive(method, dictionary_size) ==
    CASE method \in { "Lzma", "Lzma2" } -> dictionary_size < 1536 * (2 ^ 20)
      [] method = "Ppmd" -> dictionary_size < 2 ^ 30
      [] method = "BZip2" -> dictionary_size < 900 * (2 ^ 10)
      [] method = "Deflate64" -> dictionary_size = 2 ^ 16
      [] method = "Deflate" -> dictionary_size = 2 ^ 15
      [] OTHER -> TRUE

isValidDictionarySize(method, dictionary_size) ==
    CASE method \in { "Lzma", "Lzma2" } -> dictionary_size <= 1536 * (2 ^ 20)
      [] method = "Ppmd" -> dictionary_size <= 2 ^ 30
      [] method = "BZip2" -> dictionary_size <= 900 * (2 ^ 10)
      [] method = "Deflate64" -> dictionary_size = 2 ^ 16
      [] method = "Deflate" -> dictionary_size = 2 ^ 15
      [] OTHER -> TRUE

methodName(method) ==
    CASE method = "Copy" -> "Copy"
      [] method = "Ppmd" -> "PPMd"
      [] method = "Lzma" -> "LZMA"
      [] method = "Lzma2" -> "LZMA2"
      [] method = "BZip2" -> "BZip2"
      [] method = "Deflate" -> "Deflate"
      [] method = "Deflate64" -> "Deflate64"
      [] OTHER -> ""

hasFeature(f) == f \in features

---------------------------------------------------------------------------
(* Files and calls *)

\* A path holds no file, or a file with the commit that wrote it (0: it was
\* there before any commit) and what it holds.
Absent == [ kind |-> "absent", by |-> 0 ]
File(kind, n) == [ kind |-> kind, by |-> n ]
Exists(f) == f.kind # "absent"

\* The error kind the design gives each exception (the code throws
\* BitException with these messages for all of them).
ErrorKind(c) ==
    CASE ~c.thrown -> "None"
      [] c.op = "compressOut" -> "EngineError"
      [] c.msg \in { "Invalid compression method for the chosen archive format",
                     "Invalid dictionary size for the chosen compression method",
                     "Format does not support updating existing archive files" }
           -> "ConfigurationError"
      [] c.msg = "Cannot update existing archive file" -> "StateError"
      [] c.msg \in { "Cannot create output archive file",
                     "Cannot create temp archive file for updating",
                     "Cannot rename temp archive file" } -> "IOError"
      [] OTHER -> "Other"

Returned(op, args) == [ op |-> op, args |-> args, thrown |-> FALSE, msg |-> "" ]
Threw(op, args, msg) == [ op |-> op, args |-> args, thrown |-> TRUE, msg |-> msg ]


---------------------------------------------------------------------------
(* Construction *)

\* What a BitInOutFormat's defaultMethod() may be: one of the methods the
\* format accepts.
DefaultMethods(format) ==
    { m \in Methods \ { "Other" } : isValidCompressionMethod(format, m) }

\* BitArchiveCreator( lib, format ).
Construct(formats, featureSets) ==
    /\ mFormat \in formats
    /\ features \in featureSets
    /\ defaultMethod \in DefaultMethods(mFormat)
    /\ mCompressionLevel = "NORMAL"
    /\ mCompressionMethod = defaultMethod
    /\ mDictionarySize = 0
    /\ mPassword = ""
    /\ mCryptHeaders = FALSE
    /\ mSolidMode = FALSE
    /\ mUpdateMode = FALSE
    /\ mVolumeSize = 0
    /\ call = Returned("BitArchiveCreator", << >>)

\* No commit has begun.
NoCommit ==
    /\ pc = "idle"
    /\ commitNo = 0
    /\ vol = Absent
    /\ dest0 = dest
    /\ tmp0 = tmp
    /\ outFile = "none"
    /\ oldArc = FALSE
    /\ hresult = "S_OK"
    /\ cbMessage = ""
    /\ log = << >>

---------------------------------------------------------------------------
(* The setters *)

\* Mutant: the headers flag is stored without looking at the password.
setPasswordAnyHeaders(password, crypt_headers) ==
    /\ mPassword' = password
    /\ mCryptHeaders' = crypt_headers
    /\ UNCHANGED << mCompressionLevel, mCompressionMethod, mDictionarySize,
                    mSolidMode, mUpdateMode, mVolumeSize >>

setPassword(password, crypt_headers) ==
    /\ mPassword' = password
    /\ mCryptHeaders' = ((password # "") /\ crypt_headers)
    /\ UNCHANGED << mCompressionLevel, mCompressionMethod, mDictionarySize,
                    mSolidMode, mUpdateMode, mVolumeSize >>

SetPassword1(password) ==
    /\ pc = "idle"
    /\ setPassword(password, mCryptHeaders)
    /\ call' = Returned("setPassword1", << password >>)
    /\ UNCHANGED << formatVars, commitVars >>

SetPassword2(password, crypt_headers) ==
    /\ pc = "idle"
    /\ setPassword(password, crypt_headers)
    /\ call' = Returned("setPassword2", << password, crypt_headers >>)
    /\ UNCHANGED << formatVars, commitVars >>

\* Mutant: a new level leaves the dictionary size as it was.
SetCompressionLevelKeepsDictionary(compression_level) ==
    /\ pc = "idle"
    /\ mCompressionLevel' = compression_level
    /\ call' = Returned("setCompressionLevel", << compression_level >>)
    /\ UNCHANGED << mDictionarySize, mCompressionMethod, mPassword, mCryptHeaders,
                    mSolidMode, mUpdateMode, mVolumeSize, formatVars, commitVars >>

SetCompressionLevel(compression_level) ==
    /\ pc = "idle"
    /\ mCompressionLevel' = compression_level
    /\ mDictionarySize' = 0
    /\ call' = Returned("setCompressionLevel", << compression_level >>)
    /\ UNCHANGED << mCompressionMethod, mPassword, mCryptHeaders, mSolidMode,
                    mUpdateMode, mVolumeSize, formatVars, commitVars >>

\* Mutant: the method is stored without being validated.
SetCompressionMethodUnchecked(compression_method) ==
    /\ pc = "idle"
    /\ call' = Returned("setCompressionMethod", << compression_method >>)
    /\ IF hasFeature("MULTIPLE_METHODS")
       THEN /\ mCompressionMethod' = compression_method
            /\ mDictionarySize' = 0
       ELSE UNCHANGED << mCompressionMethod, mDictionarySize >>
    /\ UNCHANGED << mCompressionLevel, mPassword, mCryptHeaders, mSolidMode,
                    mUpdateMode, mVolumeSize, formatVars, commitVars >>

\* Mutant: a new method leaves the dictionary size as it was.
SetCompressionMethodKeepsDictionary(compression_method) ==
    /\ pc = "idle"
    /\ IF ~isValidCompressionMethod(mFormat, compression_method)
       THEN /\ call' = Threw("setCompressionMethod", << compression_method >>,
                             "Invalid compression method for the chosen archive format")
            /\ UNCHANGED mCompressionMethod
       ELSE /\ call' = Returned("setCompressionMethod", << compression_method >>)
            /\ IF hasFeature("MULTIPLE_METHODS")
               THEN mCompressionMethod' = compression_method
               ELSE UNCHANGED mCompressionMethod
    /\ UNCHANGED << mDictionarySize, mCompressionLevel, mPassword, mCryptHeaders,
                    mSolidMode, mUpdateMode, mVolumeSize, formatVars, commitVars >>

\* Mutant: a valid method is stored whether or not the format has several.
SetCompressionMethodAlwaysStores(compression_method) ==
    /\ pc = "idle"
    /\ IF ~isValidCompressionMethod(mFormat, compression_method)
       THEN /\ call' = Threw("setCompressionMethod", << compression_method >>,
                             "Invalid compression method for the chosen archive format")
            /\ UNCHANGED << mCompressionMethod, mDictionarySize >>
       ELSE /\ call' = Returned("setCompressionMethod", << compression_method >>)
            /\ mCompressionMethod' = compression_method
            /\ mDictionarySize' = 0
    /\ UNCHANGED << mCompressionLevel, mPassword, mCryptHeaders, mSolidMode,
                    mUpdateMode, mVolumeSize, formatVars, commitVars >>

\* Mutant: setting the method the creator already has returns at once.
SetCompressionMethodSkipsSame(compression_method) ==
    /\ pc = "idle"
    /\ IF ~isValidCompressionMethod(mFormat, compression_method)
       THEN /\ call' = Threw("setCompressionMethod", << compression_method >>,
                             "Invalid compression method for the chosen archive format")
            /\ UNCHANGED << mCompressionMethod, mDictionarySize >>
       ELSE /\ call' = Returned("setCompressionMethod", << compression_method >>)
            /\ IF hasFeature("MULTIPLE_METHODS") /\ compression_method # mCompressionMethod
               THEN /\ mCompressionMethod' = compression_method
                    /\ mDictionarySize' = 0
               ELSE UNCHANGED << mCompressionMethod, mDictionarySize >>
    /\ UNCHANGED << mCompressionLevel, mPassword, mCryptHeaders, mSolidMode,
                    mUpdateMode, mVolumeSize, formatVars, commitVars >>

SetCompressionMethod(compression_method) ==
    /\ pc = "idle"
    /\ IF ~isValidCompressionMethod(mFormat, compression_method)
       THEN /\ call' = Threw("setCompressionMethod", << compression_method >>,
                             "Invalid compression method for the chosen archive format")
            /\ UNCHANGED << mCompressionMethod, mDictionarySize >>
       ELSE /\ call' = Returned("setCompressionMethod", << compression_method >>)
            /\ IF hasFeature("MULTIPLE_METHODS")
               THEN /\ mCompressionMethod' = compression_method
                    /\ mDictionarySize' = 0
               ELSE UNCHANGED << mCompressionMethod, mDictionarySize >>
    /\ UNCHANGED << mCompressionLevel, mPassword, mCryptHeaders, mSolidMode,
                    mUpdateMode, mVolumeSize, formatVars, commitVars >>

\* Mutant: the size is stored before it is validated.
SetDictionarySizeStoresFirst(dictionary_size) ==
    /\ pc = "idle"
    /\ mDictionarySize' = IF mCompressionMethod \notin { "Copy", "Deflate", "Deflate64" }
                          THEN dictionary_size ELSE mDictionarySize
    /\ call' = IF ~isValidDictionarySize(mCompressionMethod, dictionary_size)
               THEN Threw("setDictionarySize", << dictionary_size >>,
                          "Invalid dictionary size for the chosen compression method")
               ELSE Returned("setDictionarySize", << dictionary_size >>)
    /\ UNCHANGED << mCompressionLevel, mCompressionMethod, mPassword, mCryptHeaders,
                    mSolidMode, mUpdateMode, mVolumeSize, formatVars, commitVars >>

\* Mutant: a valid size is stored whatever the method.
SetDictionarySizeAlwaysStores(dictionary_size) ==
    /\ pc = "idle"
    /\ IF ~isValidDictionarySize(mCompressionMethod, dictionary_size)
       THEN /\ call' = Threw("setDictionarySize", << dictionary_size >>,
                             "Invalid dictionary size for the chosen compression method")
            /\ UNCHANGED mDictionarySize
       ELSE /\ call' = Returned("setDictionarySize", << dictionary_size >>)
            /\ mDictionarySize' = dictionary_size
    /\ UNCHANGED << mCompressionLevel, mCompressionMethod, mPassword, mCryptHeaders,
                    mSolidMode, mUpdateMode, mVolumeSize, formatVars, commitVars >>

SetDictionarySize(dictionary_size) ==
    /\ pc = "idle"
    /\ IF ~isValidDictionarySize(mCompressionMethod, dictionary_size)
       THEN /\ call' = Threw("setDictionarySize", << dictionary_size >>,
                             "Invalid dictionary size for the chosen compression method")
            /\ UNCHANGED mDictionarySize
       ELSE /\ call' = Returned("setDictionarySize", << dictionary_size >>)
            /\ IF mCompressionMethod \notin { "Copy", "Deflate", "Deflate64" }
               THEN mDictionarySize' = dictionary_size
               ELSE UNCHANGED mDictionarySize
    /\ UNCHANGED << mCompressionLevel, mCompressionMethod, mPassword, mCryptHeaders,
                    mSolidMode, mUpdateMode, mVolumeSize, formatVars, commitVars >>

SetSolidMode(solid_mode) ==
    /\ pc = "idle"
    /\ mSolidMode' = solid_mode
    /\ call' = Returned("setSolidMode", << solid_mode >>)
    /\ UNCHANGED << mCompressionLevel, mCompressionMethod, mDictionarySize, mPassword,
                    mCryptHeaders, mUpdateMode, mVolumeSize, formatVars, commitVars >>

SetUpdateMode(update_mode) ==
    /\ pc = "idle"
    /\ mUpdateMode' = update_mode
    /\ call' = Returned("setUpdateMode", << update_mode >>)
    /\ UNCHANGED << mCompressionLevel, mCompressionMethod, mDictionarySize, mPassword,
                    mCryptHeaders, mSolidMode, mVolumeSize, formatVars, commitVars >>

SetVolumeSize(size) ==
    /\ pc = "idle"
    /\ mVolumeSize' = size
    /\ call' = Returned("setVolumeSize", << size >>)
    /\ UNCHANGED << mCompressionLevel, mCompressionMethod, mDictionarySize, mPassword,
                    mCryptHeaders, mSolidMode, mUpdateMode, formatVars, commitVars >>

---------------------------------------------------------------------------
(* setArchiveProperties: the parallel vectors names and values *)

Digit(d) ==
    CASE d = 0 -> "0" [] d = 1 -> "1" [] d = 2 -> "2" [] d = 3 -> "3" [] d = 4 -> "4"
      [] d = 5 -> "5" [] d = 6 -> "6" [] d = 7 -> "7" [] d = 8 -> "8" [] OTHER -> "9"

\* std::to_wstring of an unsigned number: its decimal digits.
RECURSIVE to_wstring(_)
to_wstring(n) == IF n < 10 THEN Digit(n) ELSE to_wstring(n \div 10) \o Digit(n % 10)

\* Mutant: the method-name entry does not wait for COMPRESSION_LEVEL.
PropertyNamesMethodWithoutLevel ==
    (IF mCryptHeaders /\ hasFeature("HEADER_ENCRYPTION") THEN << "he" >> ELSE << >>)
    \o (IF hasFeature("COMPRESSION_LEVEL") THEN << "x" >> ELSE << >>)
    \o (IF hasFeature("MULTIPLE_METHODS") /\ mCompressionMethod # defaultMethod
        THEN << IF mFormat = "SevenZip" THEN "0" ELSE "m" >>
        ELSE << >>)
    \o (IF hasFeature("SOLID_ARCHIVE") THEN << "s" >> ELSE << >>)
    \o (IF mDictionarySize # 0
        THEN << IF mFormat = "SevenZip"
                THEN (IF mCompressionMethod = "Ppmd" THEN "0mem" ELSE "0d")
                ELSE (IF mCompressionMethod = "Ppmd" THEN "mem" ELSE "d") >>
        ELSE << >>)

PropertyNames ==
    (IF mCryptHeaders /\ hasFeature("HEADER_ENCRYPTION") THEN << "he" >> ELSE << >>)
    \o (IF hasFeature("COMPRESSION_LEVEL")
        THEN << "x" >>
             \o (IF hasFeature("MULTIPLE_METHODS") /\ mCompressionMethod # defaultMethod
                 THEN << IF mFormat = "SevenZip" THEN "0" ELSE "m" >>
                 ELSE << >>)
        ELSE << >>)
    \o (IF hasFeature("SOLID_ARCHIVE") THEN << "s" >> ELSE << >>)
    \o (IF mDictionarySize # 0
        THEN << IF mFormat = "SevenZip"
                THEN (IF mCompressionMethod = "Ppmd" THEN "0mem" ELSE "0d")
                ELSE (IF mCompressionMethod = "Ppmd" THEN "mem" ELSE "d") >>
        ELSE << >>)

\* Each value is tagged with its variant type.
PropertyValues ==
    (IF mCryptHeaders /\ hasFeature("HEADER_ENCRYPTION")
     THEN << [ type |-> "bool", v |-> "true" ] >> ELSE << >>)
    \o (IF hasFeature("COMPRESSION_LEVEL")
        THEN << [ type |-> "uint32", v |-> mCompressionLevel ] >>
             \o (IF hasFeature("MULTIPLE_METHODS") /\ mCompressionMethod # defaultMethod
                 THEN << [ type |-> "wstring", v |-> methodName(mCompressionMethod) ] >>
                 ELSE << >>)
        ELSE << >>)
    \o (IF hasFeature("SOLID_ARCHIVE")
        THEN << [ type |-> "bool", v |-> IF mSolidMode THEN "true" ELSE "false" ] >>
        ELSE << >>)
    \o (IF mDictionarySize # 0
        THEN << [ type |-> "wstring", v |-> to_wstring(mDictionarySize) \o "b" ] >>
        ELSE << >>)

\* Mutant: the properties are set whether or not the list is empty.
setArchivePropertiesAlways(queryOk, setOk) ==
    IF ~queryOk
    THEN [ calls |-> << "QueryInterface" >>, thrown |-> TRUE,
           msg |-> "ISetProperties unsupported" ]
    ELSE IF ~setOk
         THEN [ calls |-> << "QueryInterface", "SetProperties" >>, thrown |-> TRUE,
                msg |-> "Cannot set properties of the archive" ]
         ELSE [ calls |-> << "QueryInterface", "SetProperties" >>, thrown |-> FALSE,
                msg |-> "" ]

\* The calls setArchiveProperties makes on the archive object and the message
\* it throws ("" when it returns), given whether QueryInterface and
\* SetProperties answer S_OK.
setArchiveProperties(queryOk, setOk) ==
    IF PropertyNames # << >>
    THEN IF ~queryOk
         THEN [ calls |-> << "QueryInterface" >>, thrown |-> TRUE,
                msg |-> "ISetProperties unsupported" ]
         ELSE IF ~setOk
              THEN [ calls |-> << "QueryInterface", "SetProperties" >>, thrown |-> TRUE,
                     msg |-> "Cannot set properties of the archive" ]
              ELSE [ calls |-> << "QueryInterface", "SetProperties" >>, thrown |-> FALSE,
                     msg |-> "" ]
    ELSE [ calls |-> << >>, thrown |-> FALSE, msg |-> "" ]

---------------------------------------------------------------------------
(* The settings specification: a creator of any format and any sequence of *)
(* setter calls.  The setters read one feature, MULTIPLE_METHODS; the      *)
(* property list of a creator with a password also reads HEADER_ENCRYPTION.*)

SetterFeatureSets == SUBSET { "MULTIPLE_METHODS", "HEADER_ENCRYPTION" }

Init ==
    /\ Construct(Formats, SetterFeatureSets)
    /\ dest = Absent
    /\ tmp = Absent
    /\ NoCommit

Next ==
    \/ \E p \in Passwords : SetPassword1(p)
    \/ \E p \in Passwords, ch \in BOOLEAN : SetPassword2(p, ch)
    \/ \E l \in Levels : SetCompressionLevel(l)
    \/ \E m \in Methods : SetCompressionMethod(m)
    \/ \E d \in DictionarySizes : SetDictionarySize(d)
    \/ \E b \in BOOLEAN : SetSolidMode(b)
    \/ \E b \in BOOLEAN : SetUpdateMode(b)
    \/ \E v \in VolumeSizes : SetVolumeSize(v)

Spec == Init /\ [][Next]_vars

---------------------------------------------------------------------------
(* Claims about the settings, checked under Spec *)

\* C1: after construction and any sequence of setter calls, rejected ones
\* included, the stored method is valid for the format by the table of
\* isValidCompressionMethod.
C1_MethodValidForFormat == isValidCompressionMethod(mFormat, mCompressionMethod)

\* A setCompressionMethod call was accepted and replaced the default method.
C1_Witness ==
    /\ call.op = "setCompressionMethod"
    /\ ~call.thrown
    /\ mCompressionMethod # defaultMethod
    /\ mCompressionMethod = call.args[1]

\* C2: after any sequence of setter calls the dictionary size is 0 or within
\* the bound of the current method, so a method change never leaves a size
\* the new method forbids.
C2_DictionarySizeValid ==
    mDictionarySize = 0 \/ isValidDictionarySize(mCompressionMethod, mDictionarySize)

\* A dictionary size was stored for a method other than the default one, a
\* size that some other method the format accepts forbids.
C2_Witness ==
    /\ call.op = "setDictionarySize"
    /\ mDictionarySize # 0
    /\ mCompressionMethod # defaultMethod
    /\ \E m \in Methods : /\ isValidCompressionMethod(mFormat, m)
                          /\ ~isValidDictionarySize(m, mDictionarySize)

\* C3: a setCompressionMethod call with a method the format does not accept,
\* and a setDictionarySize call with a size the current method forbids, throw
\* and leave every settings field as it was.
C3_RejectedSetterChangesNothing ==
    [][ ( \/ /\ call'.op = "setCompressionMethod"
             /\ ~isValidCompressionMethod(mFormat, call'.args[1])
          \/ /\ call'.op = "setDictionarySize"
             /\ ~isValidDictionarySize(mCompressionMethod, call'.args[1]) )
        => ( /\ call'.thrown
             /\ ErrorKind(call') = "ConfigurationError"
             /\ settings' = settings ) ]_vars

\* A setDictionarySize call was rejected while a non-default size was stored.
C3_Witness ==
    /\ call.op = "setDictionarySize"
    /\ call.thrown
    /\ mDictionarySize # 0
    /\ mDictionarySize # call.args[1]

\* C4: cryptHeaders is true only with a non-empty password, and with an empty
\* password the property names hold no "he" entry.
C4_CryptHeadersNeedPassword ==
    /\ mCryptHeaders => mPassword # ""
    /\ mPassword = "" => \A i \in 1..Len(PropertyNames) : PropertyNames[i] # "he"

\* setPassword( "", true ) was called on a format with header encryption.
C4_Witness ==
    /\ call.op = "setPassword2"
    /\ call.args = << "", TRUE >>
    /\ hasFeature("HEADER_ENCRYPTION")
    /\ ~mCryptHeaders

---------------------------------------------------------------------------
(* The commit: the creator's callers run initOutArchive, initOutFileStream, *)
(* compressOut and cleanupOldArc in this order; an exception thrown by any  *)
(* of them ends the commit, destroying old_arc and releasing the stream.    *)

MaxCommits == 2

\* HRESULTs UpdateItems may return: the success code, another non-negative
\* code, and three failures.
HResults == { "S_OK", "S_FALSE", "E_NOTIMPL", "E_FAIL", "E_ABORT" }

\* What the callback's getErrorMessage() may hold.
CallbackMessages == { "", "callback error" }

\* What a stream holds after UpdateItems failed: nothing, or part of an archive.
FailedOutputs == { "empty", "partial" }

\* fsutil::renameFile( from, to ): a move with overwriting that either
\* replaces `to` by `from` or leaves both as they were.
renameFile(from, to, moved) ==
    IF moved THEN [ from |-> Absent, to |-> from, renamed |-> TRUE ]
    ELSE [ from |-> from, to |-> to, renamed |-> FALSE ]

\* initOutArchive, which begins a commit.
InitOutArchive(queryOk, setOk) ==
    /\ pc = "idle"
    /\ commitNo < MaxCommits
    /\ commitNo' = commitNo + 1
    /\ dest0' = dest
    /\ tmp0' = tmp
    /\ outFile' = "none"
    /\ oldArc' = FALSE
    /\ hresult' = "S_OK"
    /\ cbMessage' = ""
    /\ LET props == setArchiveProperties(queryOk, setOk)
       IN  /\ log' = << "createArchiveObject" >> \o props.calls
           /\ IF props.thrown
              THEN /\ pc' = "idle"
                   /\ call' = Threw("initOutArchive", << >>, props.msg)
              ELSE /\ pc' = "archive"
                   /\ call' = Returned("initOutArchive", << >>)
    /\ UNCHANGED << formatVars, settings, dest, tmp, vol >>

\* Mutant: the format is checked before the update mode.
updateRefusalFormatFirst ==
    IF ~hasFeature("MULTIPLE_FILES")
    THEN "Format does not support updating existing archive files"
    ELSE IF ~mUpdateMode
    THEN "Cannot update existing archive file"
    ELSE ""

\* Why an archive already at out_archive cannot be updated ("" when it can):
\* the two checks that follow ERROR_FILE_EXISTS.
updateRefusal ==
    IF ~mUpdateMode
    THEN "Cannot update existing archive file"
    ELSE IF ~hasFeature("MULTIPLE_FILES")
    THEN "Format does not support updating existing archive files"
    ELSE ""

\* Mutant: the temp file is created over whatever is at out_archive + ".tmp".
createOutFileOverTemp(createOk, tmpOk, openOk, updatableOk, queryOk, setOk) ==
    LET same == [ dest |-> dest, tmp |-> tmp, outFile |-> "none", oldArc |-> FALSE ]
        created == File("empty", commitNo)
        props == setArchiveProperties(queryOk, setOk)
        after == << "Create", "Create.tmp", "BitInputArchive", "initUpdatableArchive" >>
    IN
    IF ~Exists(dest) /\ createOk
    THEN [ same EXCEPT !.dest = created, !.outFile = "dest" ]
         @@ [ thrown |-> FALSE, msg |-> "", calls |-> << "Create" >> ]
    ELSE IF ~Exists(dest)
    THEN same @@ [ thrown |-> TRUE, msg |-> "Cannot create output archive file",
                   calls |-> << "Create" >> ]
    ELSE IF updateRefusal # ""
    THEN same @@ [ thrown |-> TRUE, msg |-> updateRefusal, calls |-> << "Create" >> ]
    ELSE IF ~tmpOk
    THEN same @@ [ thrown |-> TRUE,
                   msg |-> "Cannot create temp archive file for updating",
                   calls |-> << "Create", "Create.tmp" >> ]
    ELSE IF ~openOk
    THEN [ same EXCEPT !.tmp = created ]
         @@ [ thrown |-> TRUE, msg |-> "Cannot open archive",
              calls |-> SubSeq(after, 1, 3) ]
    ELSE IF ~updatableOk
    THEN [ same EXCEPT !.tmp = created ]
         @@ [ thrown |-> TRUE, msg |-> "Archive is not updatable", calls |-> after ]
    ELSE IF props.thrown
    THEN [ same EXCEPT !.tmp = created ]
         @@ [ thrown |-> TRUE, msg |-> props.msg, calls |-> after \o props.calls ]
    ELSE [ same EXCEPT !.tmp = created, !.outFile = "tmp", !.oldArc = TRUE ]
         @@ [ thrown |-> FALSE, msg |-> "", calls |-> after \o props.calls ]

\* The else branch of initOutFileStream (no volumes), given what the file
\* system and the archive reader answer: createOk (a file can be created at
\* out_archive when none is there), tmpOk (likewise at out_archive + ".tmp"),
\* openOk (BitInputArchive opens the archive), updatableOk
\* (initUpdatableArchive succeeds), and the answers to setArchiveProperties.
\* Create( path, false ) fails with ERROR_FILE_EXISTS when a file is at path.
\* An exception destroys old_arc and releases the stream; no file is deleted.
createOutFile(createOk, tmpOk, openOk, updatableOk, queryOk, setOk) ==
    LET same == [ dest |-> dest, tmp |-> tmp, outFile |-> "none", oldArc |-> FALSE ]
        created == File("empty", commitNo)
        props == setArchiveProperties(queryOk, setOk)
    IN
    IF ~Exists(dest) /\ createOk
    THEN [ same EXCEPT !.dest = created, !.outFile = "dest" ]
         @@ [ thrown |-> FALSE, msg |-> "", calls |-> << "Create" >> ]
    ELSE IF ~Exists(dest)
    THEN same @@ [ thrown |-> TRUE, msg |-> "Cannot create output archive file",
                   calls |-> << "Create" >> ]
    ELSE IF updateRefusal # ""
    THEN same @@ [ thrown |-> TRUE, msg |-> updateRefusal, calls |-> << "Create" >> ]
    ELSE IF Exists(tmp) \/ ~tmpOk
    THEN same @@ [ thrown |-> TRUE,
                   msg |-> "Cannot create temp archive file for updating",
                   calls |-> << "Create", "Create.tmp" >> ]
    ELSE IF ~openOk
    THEN [ same EXCEPT !.tmp = created ]
         @@ [ thrown |-> TRUE, msg |-> "Cannot open archive",
              calls |-> << "Create", "Create.tmp", "BitInputArchive" >> ]
    ELSE IF ~updatableOk
    THEN [ same EXCEPT !.tmp = created ]
         @@ [ thrown |-> TRUE, msg |-> "Archive is not updatable",
              calls |-> << "Create", "Create.tmp", "BitInputArchive",
                           "initUpdatableArchive" >> ]
    ELSE IF props.thrown
    THEN [ same EXCEPT !.tmp = created ]
         @@ [ thrown |-> TRUE, msg |-> props.msg,
              calls |-> << "Create", "Create.tmp", "BitInputArchive",
                           "initUpdatableArchive" >> \o props.calls ]
    ELSE [ same EXCEPT !.tmp = created, !.outFile = "tmp", !.oldArc = TRUE ]
         @@ [ thrown |-> FALSE, msg |-> "",
              calls |-> << "Create", "Create.tmp", "BitInputArchive",
                           "initUpdatableArchive" >> \o props.calls ]

\* The target a positive volume size gives: a COutMultiVolStream, which
\* touches neither out_archive nor its ".tmp".
multiVolStream ==
    [ dest |-> dest, tmp |-> tmp, outFile |-> "vol", oldArc |-> FALSE,
      thrown |-> FALSE, msg |-> "", calls |-> << "COutMultiVolStream" >> ]

\* Mutant: an archive to update takes precedence over the volume size.
initOutFileStreamUpdateFirst(createOk, tmpOk, openOk, updatableOk, queryOk, setOk) ==
    IF mVolumeSize > 0 /\ ~(mUpdateMode /\ Exists(dest))
    THEN multiVolStream
    ELSE createOutFile(createOk, tmpOk, openOk, updatableOk, queryOk, setOk)

initOutFileStream(createOk, tmpOk, openOk, updatableOk, queryOk, setOk) ==
    IF mVolumeSize > 0
    THEN multiVolStream
    ELSE createOutFile(createOk, tmpOk, openOk, updatableOk, queryOk, setOk)

InitOutFileStream(createOk, tmpOk, openOk, updatableOk, queryOk, setOk) ==
    /\ pc = "archive"
    /\ LET r == initOutFileStream(createOk, tmpOk, openOk, updatableOk, queryOk, setOk)
       IN  /\ dest' = r.dest
           /\ tmp' = r.tmp
           /\ outFile' = r.outFile
           /\ oldArc' = r.oldArc
           /\ log' = log \o r.calls
           /\ IF r.thrown
              THEN /\ pc' = "idle"
                   /\ call' = Threw("initOutFileStream", << >>, r.msg)
              ELSE /\ pc' = "stream"
                   /\ call' = Returned("initOutFileStream", << >>)
    /\ UNCHANGED << formatVars, settings, commitNo, vol, dest0, tmp0, hresult, cbMessage >>

\* Mutant: only the failure codes throw; S_FALSE passes for success.
compressOutFailureCodesOnly(result, message) ==
    IF result = "E_NOTIMPL"
    THEN [ thrown |-> TRUE, msg |-> "Unsupported operation!" ]
    ELSE IF result = "E_FAIL" /\ message = ""
    THEN [ thrown |-> TRUE, msg |-> "Failed operation (unkwown error)!" ]
    ELSE IF result \notin { "S_OK", "S_FALSE" }
    THEN [ thrown |-> TRUE, msg |-> message ]
    ELSE [ thrown |-> FALSE, msg |-> "" ]

\* Mutant: E_FAIL gives the generic message whatever the callback says.
compressOutAnyFail(result, message) ==
    IF result = "E_NOTIMPL"
    THEN [ thrown |-> TRUE, msg |-> "Unsupported operation!" ]
    ELSE IF result = "E_FAIL"
    THEN [ thrown |-> TRUE, msg |-> "Failed operation (unkwown error)!" ]
    ELSE IF result # "S_OK"
    THEN [ thrown |-> TRUE, msg |-> message ]
    ELSE [ thrown |-> FALSE, msg |-> "" ]

\* What compressOut throws for the HRESULT of UpdateItems and the callback's
\* error message.
compressOut(result, message) ==
    IF result = "E_NOTIMPL"
    THEN [ thrown |-> TRUE, msg |-> "Unsupported operation!" ]
    ELSE IF result = "E_FAIL" /\ message = ""
    THEN [ thrown |-> TRUE, msg |-> "Failed operation (unkwown error)!" ]
    ELSE IF result # "S_OK"
    THEN [ thrown |-> TRUE, msg |-> message ]
    ELSE [ thrown |-> FALSE, msg |-> "" ]

\* UpdateItems writes the archive to out_stream; when it does not return
\* S_OK the stream holds whatever had been written by then.
CompressOut(result, message, failedOutput) ==
    /\ pc = "stream"
    /\ hresult' = result
    /\ cbMessage' = message
    /\ log' = Append(log, "UpdateItems")
    /\ LET written == IF result = "S_OK" THEN File("archive", commitNo)
                      ELSE File(failedOutput, commitNo)
           r == compressOut(result, message)
       IN  /\ dest' = IF outFile = "dest" THEN written ELSE dest
           /\ tmp' = IF outFile = "tmp" THEN written ELSE tmp
           /\ vol' = IF outFile = "vol" THEN written ELSE vol
           /\ IF r.thrown
              THEN /\ pc' = "idle"
                   /\ oldArc' = FALSE
                   /\ call' = Threw("compressOut", << result, message >>, r.msg)
              ELSE /\ pc' = "engine"
                   /\ oldArc' = oldArc
                   /\ call' = Returned("compressOut", << result, message >>)
    /\ UNCHANGED << formatVars, settings, commitNo, dest0, tmp0, outFile >>

\* Mutant: the temp file is moved before the archive and the stream are closed.
cleanupOldArcRenamesFirst(moved) ==
    IF oldArc
    THEN LET r == renameFile(tmp, dest, moved)
         IN  [ dest |-> r.to, tmp |-> r.from,
               calls |-> << IF r.renamed THEN "renameFile: true" ELSE "renameFile: false",
                            "old_arc.close", "out_stream.Close" >>,
               thrown |-> ~r.renamed,
               msg |-> IF r.renamed THEN "" ELSE "Cannot rename temp archive file" ]
    ELSE [ dest |-> dest, tmp |-> tmp, calls |-> << >>, thrown |-> FALSE, msg |-> "" ]

\* Mutant: the result of renameFile is ignored.
cleanupOldArcIgnoresRename(moved) ==
    IF oldArc
    THEN LET r == renameFile(tmp, dest, moved)
         IN  [ dest |-> r.to, tmp |-> r.from,
               calls |-> << "old_arc.close", "out_stream.Close",
                            IF r.renamed THEN "renameFile: true" ELSE "renameFile: false" >>,
               thrown |-> FALSE, msg |-> "" ]
    ELSE [ dest |-> dest, tmp |-> tmp, calls |-> << >>, thrown |-> FALSE, msg |-> "" ]

\* What cleanupOldArc does, given whether the move of the temp file succeeds.
cleanupOldArc(moved) ==
    IF oldArc
    THEN LET r == renameFile(tmp, dest, moved)
         IN  [ dest |-> r.to, tmp |-> r.from,
               calls |-> << "old_arc.close", "out_stream.Close",
                            IF r.renamed THEN "renameFile: true" ELSE "renameFile: false" >>,
               thrown |-> ~r.renamed,
               msg |-> IF r.renamed THEN "" ELSE "Cannot rename temp archive file" ]
    ELSE [ dest |-> dest, tmp |-> tmp, calls |-> << >>, thrown |-> FALSE, msg |-> "" ]

CleanupOldArc(moved) ==
    /\ pc = "engine"
    /\ LET r == cleanupOldArc(moved)
       IN  /\ dest' = r.dest
           /\ tmp' = r.tmp
           /\ log' = log \o r.calls
           /\ call' = IF r.thrown THEN Threw("cleanupOldArc", << >>, r.msg)
                      ELSE Returned("cleanupOldArc", << >>)
    /\ pc' = "idle"
    /\ oldArc' = FALSE
    /\ UNCHANGED << formatVars, settings, commitNo, vol, dest0, tmp0, outFile,
                    hresult, cbMessage >>

---------------------------------------------------------------------------
(* The commit specification: a creator whose update mode and volume size   *)
(* are set between commits to one out_archive path, where an archive and a *)
(* ".tmp" file may already be.  The commit reads, beside these two fields, *)
(* the feature MULTIPLE_FILES and whether the property list is empty.      *)

CommitFeatureSets == SUBSET { "MULTIPLE_FILES", "COMPRESSION_LEVEL" }

InitCommit ==
    /\ Construct(Formats, CommitFeatureSets)
    /\ dest \in { Absent, File("archive", 0) }
    /\ tmp \in { Absent, File("partial", 0) }
    /\ NoCommit

NextCommit ==
    \/ \E b \in BOOLEAN : SetUpdateMode(b)
    \/ \E v \in VolumeSizes : SetVolumeSize(v)
    \/ \E queryOk \in BOOLEAN, setOk \in BOOLEAN : InitOutArchive(queryOk, setOk)
    \/ \E createOk \in BOOLEAN, tmpOk \in BOOLEAN, openOk \in BOOLEAN,
          updatableOk \in BOOLEAN, queryOk \in BOOLEAN, setOk \in BOOLEAN :
            InitOutFileStream(createOk, tmpOk, openOk, updatableOk, queryOk, setOk)
    \/ \E result \in HResults, message \in CallbackMessages, out \in FailedOutputs :
            CompressOut(result, message, out)
    \/ \E moved \in BOOLEAN : CleanupOldArc(moved)

SpecCommit == InitCommit /\ [][NextCommit]_vars

---------------------------------------------------------------------------
(* Claims about the commit, checked under SpecCommit *)

\* The current commit made none of the calls in `names`.
NotCalled(names) == \A i \in 1..Len(log) : log[i] \notin names

\* C5: a commit that fails before finalize (in initOutArchive,
\* initOutFileStream or compressOut) leaves out_archive as it was when the
\* commit began: no file where there was none, the same archive where there
\* was one.
C5_FailureLeavesDestinationUntouched ==
    ( /\ pc = "idle"
      /\ call.thrown
      /\ call.op \in { "initOutArchive", "initOutFileStream", "compressOut" } )
    => dest = dest0

\* The initOutFileStream call just made threw `msg`, of kind `kind`, having
\* made no call after the first Create and having changed no file.
C6_Refused(msg, kind) ==
    /\ call.thrown
    /\ call.msg = msg
    /\ ErrorKind(call) = kind
    /\ pc = "idle"
    /\ log[Len(log)] = "Create"
    /\ NotCalled({ "Create.tmp", "BitInputArchive", "initUpdatableArchive", "UpdateItems" })
    /\ ~oldArc
    /\ dest = dest0
    /\ tmp = tmp0

\* C6: with no volume size and a file at out_archive, initOutFileStream
\* throws "Cannot update existing archive file" (StateError) when update mode
\* is off, whatever the format, and "Format does not support updating
\* existing archive files" (ConfigurationError) when update mode is on and
\* the format lacks MULTIPLE_FILES; in both cases before any temp file,
\* archive reader or UpdateItems call.
C6_ExistingArchiveRefused ==
    ( /\ call.op = "initOutFileStream"
      /\ mVolumeSize = 0
      /\ Exists(dest0) )
    => /\ ~mUpdateMode => C6_Refused("Cannot update existing archive file", "StateError")
       /\ (mUpdateMode /\ ~hasFeature("MULTIPLE_FILES"))
            => C6_Refused("Format does not support updating existing archive files",
                          "ConfigurationError")

\* Update mode is on, the format lacks MULTIPLE_FILES, and the commit was refused.
C6_Witness ==
    /\ call.op = "initOutFileStream"
    /\ mVolumeSize = 0
    /\ Exists(dest0)
    /\ mUpdateMode
    /\ ~hasFeature("MULTIPLE_FILES")
    /\ call.thrown

\* C7: with a positive volume size, for every format, update mode and state
\* of out_archive, initOutFileStream returns a multi-volume stream without
\* throwing, and through the end of the commit no Create is attempted at
\* out_archive or its ".tmp", no archive reader is opened, nothing is
\* renamed, and both paths stay as they were.
C7_VolumesBypassUpdate ==
    ( /\ mVolumeSize > 0
      /\ call.op \in { "initOutFileStream", "compressOut", "cleanupOldArc" } )
    => /\ outFile = "vol"
       /\ log[2 + Len(setArchiveProperties(TRUE, TRUE).calls)] = "COutMultiVolStream"
       /\ call.op \in { "initOutFileStream", "cleanupOldArc" } => ~call.thrown
       /\ NotCalled({ "Create", "Create.tmp", "BitInputArchive", "initUpdatableArchive",
                      "old_arc.close", "out_stream.Close",
                      "renameFile: true", "renameFile: false" })
       /\ ~oldArc
       /\ dest = dest0
       /\ tmp = tmp0

\* A commit with volumes, update mode on and an archive at out_archive, on a
\* format that could update it, ran to the end of cleanupOldArc.
C7_Witness ==
    /\ mVolumeSize > 0
    /\ mUpdateMode
    /\ hasFeature("MULTIPLE_FILES")
    /\ Exists(dest0)
    /\ ~Exists(tmp0)
    /\ call = Returned("cleanupOldArc", << >>)
    /\ vol = File("archive", commitNo)

\* C8: when UpdateItems succeeded in an update and renameFile then fails,
\* cleanupOldArc throws "Cannot rename temp archive file" (IOError),
\* out_archive still holds the prior archive and the temp file still holds
\* the archive this commit wrote.
C8_RenameFailureKeepsBothFiles ==
    ( /\ call.op = "cleanupOldArc"
      /\ log[Len(log)] = "renameFile: false" )
    => /\ call.thrown
       /\ call.msg = "Cannot rename temp archive file"
       /\ ErrorKind(call) = "IOError"
       /\ hresult = "S_OK"
       /\ Exists(dest0)
       /\ dest = dest0
       /\ tmp = File("archive", commitNo)

\* renameFile failed at the end of an update whose engine call succeeded.
C8_Witness ==
    /\ call.op = "cleanupOldArc"
    /\ log[Len(log)] = "renameFile: false"
    /\ outFile = "tmp"
    /\ hresult = "S_OK"
    /\ pc = "idle"

\* C9: compressOut maps the HRESULT of UpdateItems and the callback's message:
\* E_NOTIMPL throws "Unsupported operation!" whatever the message; E_FAIL with
\* an empty message throws the generic message; every other code but S_OK
\* throws the callback's message; S_OK alone returns and lets the commit go
\* on to cleanupOldArc.
C9_EngineResultMapping ==
    call.op = "compressOut"
    => /\ call.args = << hresult, cbMessage >>
       /\ hresult = "E_NOTIMPL"
            => (call.thrown /\ call.msg = "Unsupported operation!")
       /\ (hresult = "E_FAIL" /\ cbMessage = "")
            => (call.thrown /\ call.msg = "Failed operation (unkwown error)!")
       /\ (hresult \notin { "S_OK", "E_NOTIMPL" } /\ ~(hresult = "E_FAIL" /\ cbMessage = ""))
            => (call.thrown /\ call.msg = cbMessage)
       /\ hresult = "S_OK" => (~call.thrown /\ pc = "engine")
       /\ call.thrown => (ErrorKind(call) = "EngineError" /\ pc = "idle")

\* UpdateItems returned E_FAIL with a message from the callback.
C9_Witness ==
    /\ call.op = "compressOut"
    /\ hresult = "E_FAIL"
    /\ cbMessage # ""
    /\ call.thrown
    /\ call.msg = cbMessage

\* C10: when initOutFileStream throws, on any of its paths, out_archive and
\* its ".tmp" are as they were when the commit began: no file was modified
\* and none that the call created is left.
C10_FailedAcquisitionLeavesNoFile ==
    ( /\ call.op = "initOutFileStream"
      /\ call.thrown )
    => /\ dest = dest0
       /\ tmp = tmp0

---------------------------------------------------------------------------
(* Further claims about the setters, checked under Spec *)

\* C11: on a format without MULTIPLE_METHODS, setCompressionMethod with a
\* method the format accepts returns without error and writes nothing (the
\* method stays the format's default, the dictionary size and every other
\* field stay as they were); with a method the format does not accept it
\* throws the invalid-method error (ConfigurationError).
C11_SingleMethodFormatIgnoresMethod ==
    [][ ( /\ call'.op = "setCompressionMethod"
          /\ ~hasFeature("MULTIPLE_METHODS") )
        => IF isValidCompressionMethod(mFormat, call'.args[1])
           THEN /\ ~call'.thrown
                /\ settings' = settings
                /\ mCompressionMethod' = defaultMethod
           ELSE /\ call'.thrown
                /\ call'.msg = "Invalid compression method for the chosen archive format"
                /\ ErrorKind(call') = "ConfigurationError" ]_vars

\* On a single-method format a method other than the default was accepted
\* while a dictionary size was stored, and neither changed.
C11_Witness ==
    /\ call.op = "setCompressionMethod"
    /\ ~call.thrown
    /\ ~hasFeature("MULTIPLE_METHODS")
    /\ call.args[1] # defaultMethod
    /\ mCompressionMethod = defaultMethod
    /\ mDictionarySize # 0

\* C12: setCompressionLevel( l ) never throws and leaves the level at l and
\* the dictionary size at 0 whatever it was, with the method, password,
\* cryptHeaders, solid mode, update mode and volume size unchanged.
C12_LevelResetsDictionarySize ==
    [][ call'.op = "setCompressionLevel"
        => /\ ~call'.thrown
           /\ mCompressionLevel' = call'.args[1]
           /\ mDictionarySize' = 0
           /\ UNCHANGED << mCompressionMethod, mPassword, mCryptHeaders, mSolidMode,
                           mUpdateMode, mVolumeSize >> ]_vars

\* A level was set on a creator whose method takes a dictionary size.
C12_Witness ==
    /\ call.op = "setCompressionLevel"
    /\ call.args[1] = "ULTRA"
    /\ mCompressionLevel = "ULTRA"
    /\ mCompressionMethod \in { "Lzma", "Lzma2", "Ppmd", "BZip2" }
    /\ mDictionarySize = 0

\* The sizes the design's table allows each method, in bytes.
C13_WithinBound(method, size) ==
    CASE method \in { "Lzma", "Lzma2" } -> size <= 1610612736
      [] method = "Ppmd" -> size <= 1073741824
      [] method = "BZip2" -> size <= 921600
      [] method = "Deflate64" -> size = 65536
      [] method = "Deflate" -> size = 32768
      [] OTHER -> TRUE

C14_DictionaryNames == { "0d", "0mem", "d", "mem" }

\* C14: while the current method is Deflate, Deflate64 or Copy the stored
\* dictionary size is 0, an accepted setDictionarySize call included, and the
\* property names hold no dictionary-size entry.
C14_FixedDictionaryMethodsStoreNothing ==
    mCompressionMethod \in { "Deflate", "Deflate64", "Copy" }
    => /\ mDictionarySize = 0
       /\ \A i \in 1..Len(PropertyNames) : PropertyNames[i] \notin C14_DictionaryNames

\* Deflate64 was given its one valid size, 65,536, and accepted it.
C14_Witness ==
    /\ call.op = "setDictionarySize"
    /\ call.args[1] = 65536
    /\ ~call.thrown
    /\ mCompressionMethod = "Deflate64"
    /\ mDictionarySize = 0

\* C19: on a format with MULTIPLE_METHODS every accepted setCompressionMethod
\* call, one that names the current method included, stores the method and
\* resets the dictionary size to 0, leaving the level, password,
\* cryptHeaders, solid mode, update mode and volume size unchanged.
C19_AcceptedMethodResetsDictionarySize ==
    [][ ( /\ call'.op = "setCompressionMethod"
          /\ ~call'.thrown
          /\ hasFeature("MULTIPLE_METHODS") )
        => /\ mCompressionMethod' = call'.args[1]
           /\ mDictionarySize' = 0
           /\ UNCHANGED << mCompressionLevel, mPassword, mCryptHeaders, mSolidMode,
                           mUpdateMode, mVolumeSize >> ]_vars

\* On a format with several methods one that takes a dictionary size was set
\* right after a level, so after at least two resets of the size.
C19_Witness ==
    /\ call.op = "setCompressionMethod"
    /\ ~call.thrown
    /\ hasFeature("MULTIPLE_METHODS")
    /\ mCompressionMethod = call.args[1]
    /\ mCompressionMethod \in { "Lzma", "Ppmd", "BZip2" }
    /\ mCompressionMethod # defaultMethod
    /\ mCompressionLevel = "ULTRA"
    /\ mDictionarySize = 0

---------------------------------------------------------------------------
(* The property-list specification: a creator of any format and any feature *)
(* set, with any settings the setters can leave it with, whose callers      *)
(* begin commits; each initOutArchive builds the property list and hands it *)
(* to the archive object.                                                   *)

\* The settings a creator can hold after construction and setter calls: a
\* method the format accepts (the default one without MULTIPLE_METHODS), a
\* dictionary size that is 0 or valid and stored for the method, and
\* cryptHeaders only with a password.  The update mode and the volume size,
\* which setArchiveProperties does not read, are left as constructed.
SettingsAfterSetters ==
    /\ mCompressionMethod \in
         IF hasFeature("MULTIPLE_METHODS")
         THEN { m \in Methods : isValidCompressionMethod(mFormat, m) }
         ELSE { defaultMethod }
    /\ mDictionarySize \in
         IF mCompressionMethod \in { "Copy", "Deflate", "Deflate64" }
         THEN { 0 }
         ELSE { d \in DictionarySizes : isValidDictionarySize(mCompressionMethod, d) }
    /\ mCompressionLevel \in Levels
    /\ mPassword \in Passwords
    /\ mCryptHeaders \in IF mPassword = "" THEN { FALSE } ELSE BOOLEAN
    /\ mSolidMode \in BOOLEAN
    /\ mUpdateMode = FALSE
    /\ mVolumeSize = 0

InitProps ==
    /\ mFormat \in Formats
    /\ features \in SUBSET AllFeatures
    /\ defaultMethod \in DefaultMethods(mFormat)
    /\ SettingsAfterSetters
    /\ call = Returned("BitArchiveCreator", << >>)
    /\ dest = Absent
    /\ tmp = Absent
    /\ NoCommit

NextProps == \E queryOk \in BOOLEAN, setOk \in BOOLEAN : InitOutArchive(queryOk, setOk)

SpecProps == InitProps /\ [][NextProps]_vars

---------------------------------------------------------------------------
(* Claims about the property list, checked under SpecProps *)

\* Some entry of the property names is one of `names`.
C15_Has(names) == \E i \in 1..Len(PropertyNames) : PropertyNames[i] \in names

\* The number of entries the conditions of C15 call for.
C15_Expected ==
    (IF mCryptHeaders /\ hasFeature("HEADER_ENCRYPTION") THEN 1 ELSE 0)
    + (IF hasFeature("COMPRESSION_LEVEL") THEN 1 ELSE 0)
    + (IF /\ hasFeature("COMPRESSION_LEVEL")
          /\ hasFeature("MULTIPLE_METHODS")
          /\ mCompressionMethod # defaultMethod THEN 1 ELSE 0)
    + (IF hasFeature("SOLID_ARCHIVE") THEN 1 ELSE 0)
    + (IF mDictionarySize # 0 THEN 1 ELSE 0)

\* C15: for every settings state and feature set the property list holds the
\* header-encryption entry iff cryptHeaders and HEADER_ENCRYPTION; the level
\* entry iff COMPRESSION_LEVEL; the method-name entry iff COMPRESSION_LEVEL,
\* MULTIPLE_METHODS and a method other than the format's default; the solid
\* entry iff SOLID_ARCHIVE; the dictionary-size entry iff the dictionary size
\* is not 0; and no other entry.
C15_PropertyListEntries ==
    /\ C15_Has({ "he" }) <=> (mCryptHeaders /\ hasFeature("HEADER_ENCRYPTION"))
    /\ C15_Has({ "x" }) <=> hasFeature("COMPRESSION_LEVEL")
    /\ C15_Has({ "0", "m" }) <=> ( /\ hasFeature("COMPRESSION_LEVEL")
                                   /\ hasFeature("MULTIPLE_METHODS")
                                   /\ mCompressionMethod # defaultMethod )
    /\ C15_Has({ "s" }) <=> hasFeature("SOLID_ARCHIVE")
    /\ C15_Has({ "0d", "0mem", "d", "mem" }) <=> mDictionarySize # 0
    /\ Len(PropertyNames) = C15_Expected
    /\ Len(PropertyValues) = C15_Expected

\* The list with all five entries was handed to the archive object.
C15_Witness ==
    /\ call = Returned("initOutArchive", << >>)
    /\ Len(PropertyNames) = 5
    /\ log = << "createArchiveObject", "QueryInterface", "SetProperties" >>

\* Some call of the current commit is `name`.
C16_Called(name) == \E i \in 1..Len(log) : log[i] = name

\* C16 as stated: after initOutArchive the property-setting call was issued
\* iff the property list is non-empty, names and values are as many, and an
\* empty list (in particular that of a format with no feature) means neither
\* the call nor the query for the property interface.
C16_CallIffNonEmpty ==
    call.op = "initOutArchive" =>
        /\ C16_Called("SetProperties") <=> PropertyNames # << >>
        /\ Len(PropertyNames) = Len(PropertyValues)
        /\ PropertyNames = << >> =>
               ~C16_Called("SetProperties") /\ ~C16_Called("QueryInterface")
        /\ features = {} => PropertyNames = << >> /\ ~C16_Called("SetProperties")

\* C16, amended: the query for the property interface is made iff the list is
\* non-empty; the property-setting call is issued iff the list is non-empty
\* and the query succeeded (otherwise "ISetProperties unsupported" is thrown
\* and no call is issued); names and values are as many; an empty list, in
\* particular that of a format with no feature and dictionary size 0, means
\* neither the call nor the query, and no error.
C16_CallIffNonEmptyAndSupported ==
    call.op = "initOutArchive" =>
        /\ C16_Called("QueryInterface") <=> PropertyNames # << >>
        /\ C16_Called("SetProperties") <=>
               /\ PropertyNames # << >>
               /\ ~(call.thrown /\ call.msg = "ISetProperties unsupported")
        /\ (call.thrown /\ call.msg = "ISetProperties unsupported") =>
               /\ PropertyNames # << >>
               /\ log = << "createArchiveObject", "QueryInterface" >>
        /\ Len(PropertyNames) = Len(PropertyValues)
        /\ PropertyNames = << >> =>
               log = << "createArchiveObject" >> /\ ~call.thrown
        /\ (features = {} /\ mDictionarySize = 0) => PropertyNames = << >>

\* A non-empty list met an archive object without the property interface.
C16_Witness ==
    /\ call = Threw("initOutArchive", << >>, "ISetProperties unsupported")
    /\ PropertyNames # << >>
    /\ ~C16_Called("SetProperties")

---------------------------------------------------------------------------
(* Further claims about the commit, checked under SpecCommit *)

\* The calls cleanupOldArc can make.
C17_FinalizeCalls ==
    { "old_arc.close", "out_stream.Close", "renameFile: true", "renameFile: false" }

\* C17: in any sequence of commits, the temp file is renamed over out_archive
\* only in a commit that writes to the temp file of an update and whose
\* UpdateItems returned S_OK, and an archive that was at out_archive when a
\* commit began is replaced in no other way; cleanupOldArc of a commit that
\* writes to out_archive itself or to volumes closes nothing, renames
\* nothing, throws nothing and leaves both files as the engine left them.
C17_RenameOnlyAfterSuccessfulUpdate ==
    /\ ~NotCalled({ "renameFile: true" }) =>
           /\ outFile = "tmp"
           /\ hresult = "S_OK"
           /\ ~NotCalled({ "UpdateItems" })
           /\ log[Len(log)] = "renameFile: true"
    /\ (Exists(dest0) /\ dest # dest0) =>
           /\ ~NotCalled({ "renameFile: true" })
           /\ dest = File("archive", commitNo)
    /\ (call.op = "cleanupOldArc" /\ outFile \in { "dest", "vol" }) =>
           /\ ~call.thrown
           /\ NotCalled(C17_FinalizeCalls)
           /\ log[Len(log)] = "UpdateItems"
           /\ hresult = "S_OK"
           /\ tmp = tmp0
           /\ dest = IF outFile = "dest" THEN File("archive", commitNo) ELSE dest0

\* A second commit replaced, by the rename, the archive the first had written
\* to out_archive.
C17_Witness ==
    /\ commitNo = 2
    /\ dest0 = File("archive", 1)
    /\ dest = File("archive", 2)
    /\ call = Returned("cleanupOldArc", << >>)
    /\ log[Len(log)] = "renameFile: true"

\* The calls setArchiveProperties makes when the archive object accepts the
\* properties: none for an empty list.
C18_PropertyCalls ==
    IF PropertyNames # << >> THEN << "QueryInterface", "SetProperties" >> ELSE << >>

\* C18: a commit that ran to the end with a file at out_archive, no volume
\* size, update mode on and a format with MULTIPLE_FILES made exactly these
\* calls, in this order: the archive object is created and given the
\* properties; Create fails on out_archive; the temp file is created; the
\* existing archive is opened; the updatable archive is obtained from it and
\* given the properties; UpdateItems; the old archive is closed; the temp
\* stream is closed; the temp file is renamed to out_archive.  Then
\* out_archive holds what UpdateItems wrote and no temp file is left.
C18_UpdateStepsInOrder ==
    ( /\ call = Returned("cleanupOldArc", << >>)
      /\ Exists(dest0)
      /\ mVolumeSize = 0
      /\ mUpdateMode
      /\ hasFeature("MULTIPLE_FILES") )
    => /\ outFile = "tmp"
       /\ tmp0 = Absent
       /\ hresult = "S_OK"
       /\ log = << "createArchiveObject" >> \o C18_PropertyCalls
                \o << "Create", "Create.tmp", "BitInputArchive", "initUpdatableArchive" >>
                \o C18_PropertyCalls
                \o << "UpdateItems", "old_arc.close", "out_stream.Close",
                      "renameFile: true" >>
       /\ dest = File("archive", commitNo)
       /\ tmp = Absent

\* An update ran to the end and gave the updatable archive its properties.
C18_Witness ==
    /\ call = Returned("cleanupOldArc", << >>)
    /\ Exists(dest0)
    /\ outFile = "tmp"
    /\ PropertyNames # << >>
    /\ Len(log) = 13
    /\ dest = File("archive", commitNo)
    /\ tmp = Absent

\* C20: an update commit (file at out_archive, no volume size, update mode
\* on, MULTIPLE_FILES) that finds a file at out_archive + ".tmp" throws
\* "Cannot create temp archive file for updating" (IOError) right after the
\* temp file's Create, before the archive is opened or UpdateItems called,
\* and changes neither file; a temp file present when a commit begins is
\* never changed by it; and an update commit that fails in compressOut
\* leaves its temp file behind, so that later update commits fail so.
C20_ExistingTempFileBlocksUpdate ==
    /\ ( /\ call.op = "initOutFileStream"
         /\ mVolumeSize = 0
         /\ Exists(dest0)
         /\ mUpdateMode
         /\ hasFeature("MULTIPLE_FILES")
         /\ Exists(tmp0) )
       => /\ call.thrown
          /\ call.msg = "Cannot create temp archive file for updating"
          /\ ErrorKind(call) = "IOError"
          /\ pc = "idle"
          /\ log[Len(log)] = "Create.tmp"
          /\ NotCalled({ "BitInputArchive", "initUpdatableArchive", "UpdateItems" })
          /\ ~oldArc
          /\ dest = dest0
          /\ tmp = tmp0
    /\ Exists(tmp0) => tmp = tmp0
    /\ (call.op = "compressOut" /\ call.thrown /\ outFile = "tmp")
       => /\ Exists(tmp)
          /\ tmp.by = commitNo
          /\ dest = dest0

\* The second update commit met the temp file the first, failed in
\* compressOut, had left.
C20_Witness ==
    /\ commitNo = 2
    /\ tmp0.by = 1
    /\ Exists(dest0)
    /\ mUpdateMode
    /\ mVolumeSize = 0
    /\ call = Threw("initOutFileStream", << >>,
                    "Cannot create temp archive file for updating")
    /\ tmp = tmp0

============================================================================
